---- MODULE Spec2Model ----
(***************************************************************************)
(* A model of autocopy.py: extraction of the BOSS database partitions      *)
(* (partitionA / partitionB) from a batch of NAND images, with the         *)
(* duplicate-aware output writer.                                          *)
(*                                                                         *)
(* File names are sequences of one-character strings, file contents and    *)
(* payloads are sequences of bytes, the working directory is a function    *)
(* from the names it holds to their entries.                               *)
(***************************************************************************)
EXTENDS Integers, Sequences, FiniteSets, TLC

VARIABLES
    pc,                    \* position in extract_nand_backups / extract_nand_backup
    is_main,               \* __name__ == "__main__"
    boot9_found,           \* an ARM9 BootROM can be loaded
    crypto,                \* the CryptoEngine shared by the batch, or NoneStr
    paths,                 \* number of images of the batch (len(paths))
    index,                 \* 1-based position of the image being processed
    arg_id0,               \* the id0 argument of the batch, or NoneStr
    skip_duplicate_check,  \* the -n flag
    image,                 \* what the image being processed holds (environment)
    disa_file,             \* the container file opened for the image (environment)
    handles,               \* readers currently open
    id0,                   \* local id0 of extract_nand_backup
    partition_a,           \* local partition_a, or NoneBytes
    partition_b,           \* local partition_b, or NoneBytes
    partition_a_filename,  \* result of dump_file for partition A, or None
    partition_b_filename,  \* result of dump_file for partition B, or None
    directory,             \* the current working directory
    intended,              \* for every file of the directory, the bytes handed to its write
    partition_a_dumps,     \* set handed to upload_dumps
    partition_b_dumps,     \* set handed to upload_dumps
    outcome,               \* per image: "ok", "failed" (None returned) or "raised"
    before,                \* directory and upload sets when the current image began (history)
    trail,                 \* what the current image's processing did (history)
    calls                  \* dump_file calls made so far (history)

vars == <<pc, is_main, boot9_found, crypto, paths, index, arg_id0,
          skip_duplicate_check, image, disa_file, handles, id0, partition_a,
          partition_b, partition_a_filename, partition_b_filename, directory,
          intended, partition_a_dumps, partition_b_dumps, outcome, before,
          trail, calls>>

----------------------------------------------------------------------------
(* Bounds *)

MaxBatch == 2        \* images per batch
MaxCalls == 3        \* dump_file calls in the writer-only specification

----------------------------------------------------------------------------
(* Values *)

NoneStr == "None"            \* None where a str is expected
None == <<"None">>           \* None where a file name is expected
NoneBytes == <<-1>>          \* None where bytes are expected

extsep == "."

partitionA_bin == <<"p","a","r","t","i","t","i","o","n","A",".","b","i","n">>
partitionB_bin == <<"p","a","r","t","i","t","i","o","n","B",".","b","i","n">>

\* payloads a partition can hold: <<1>> is a proper prefix of <<1, 2>>, and
\* <<1, 2>> and <<2, 1>> are different bytes with the same digest
Payloads == {<<1>>, <<1, 2>>, <<2, 1>>}
SecondPayloads == {<<1>>, <<2, 1>>}       \* payloads of a second partition

\* no image is open
NoImage ==
    [movable |-> FALSE, key_id0 |-> NoneStr, data_list |-> <<>>, containers |-> {}]

\* no container file is open
NoContainer == [magic_ok |-> FALSE, partitions |-> <<>>]

\* the state of the batch when an image begins
Began(dir, a_dumps, b_dumps) == [directory |-> dir, a |-> a_dumps, b |-> b_dumps]

File(data) == [isfile |-> TRUE, data |-> data]
Dir == [isfile |-> FALSE, data |-> <<>>]

----------------------------------------------------------------------------
(* str helpers *)

Digits == <<"0","1","2","3","4","5","6","7","8","9">>

RECURSIVE str(_)
str(number) ==
    IF number < 10 THEN <<Digits[number + 1]>>
    ELSE str(number \div 10) \o <<Digits[(number % 10) + 1]>>

\* "a.b".rsplit(".", 1): split at the last separator, if there is one
rsplit(s) ==
    LET seps == {k \in 1..Len(s) : s[k] = extsep}
    IN  IF seps = {} THEN <<s>>
        ELSE LET k == CHOOSE k \in seps : \A j \in seps : j <= k
             IN  <<SubSeq(s, 1, k - 1), SubSeq(s, k + 1, Len(s))>>

RECURSIVE join(_)
join(parts) ==
    IF Len(parts) = 1 THEN parts[1]
    ELSE parts[1] \o <<extsep>> \o join(Tail(parts))

startswith(s, prefix) ==
    Len(prefix) <= Len(s) /\ SubSeq(s, 1, Len(prefix)) = prefix

RECURSIVE SumBytes(_)
SumBytes(content) ==
    IF content = <<>> THEN 0 ELSE Head(content) + SumBytes(Tail(content))

\* hashlib.md5(content).digest(): a deterministic digest of fixed size of a
\* byte string of any size, hence not injective; the model keeps both
\* properties with the byte sum as digest
md5(content) == SumBytes(content)

listdir(dir) == DOMAIN dir

----------------------------------------------------------------------------
(* DedupOutputWriter: find_unused_filename, is_duplicate, dump_file *)

RECURSIVE find_loop(_, _, _, _, _)
find_loop(filename, name, extension, number, directory_list) ==
    IF filename \notin directory_list THEN filename
    ELSE find_loop(IF extension = None
                   THEN join(<<name, str(number)>>)
                   ELSE join(<<name, str(number), extension>>),
                   name, extension, number + 1, directory_list)

\* find_unused_filename with its counter starting one too high
find_unused_filename_from_3(path, dir) ==
    LET split_filename == rsplit(path)
        name == split_filename[1]
        extension == IF Len(split_filename) = 2 THEN split_filename[2] ELSE None
    IN  find_loop(path, name, extension, 3, listdir(dir))

find_unused_filename(path, dir) ==
    LET split_filename == rsplit(path)
        name == split_filename[1]
        extension == IF Len(split_filename) = 2 THEN split_filename[2] ELSE None
    IN  find_loop(path, name, extension, 2, listdir(dir))

\* is_duplicate comparing with the file of the exact name only
is_duplicate_exact_name(dir, filename, new_hash) ==
    \E existing_filename \in listdir(dir) :
        /\ dir[existing_filename].isfile
        /\ existing_filename = filename
        /\ md5(dir[existing_filename].data) = new_hash

is_duplicate(dir, filename, new_hash) ==
    LET filename_start == rsplit(filename)[1]
    IN  \E existing_filename \in listdir(dir) :
            /\ dir[existing_filename].isfile
            /\ startswith(existing_filename, filename_start)
            /\ md5(dir[existing_filename].data) = new_hash

\* the directory with `name` holding `entry`
put(dir, name, entry) ==
    [f \in DOMAIN dir \cup {name} |-> IF f = name THEN entry ELSE dir[f]]

\* dump_file when the write completes: the file name returned and the directory left
dump_file(path, content, skip, dir) ==
    LET filename == find_unused_filename(path, dir)
    IN  IF ~skip /\ is_duplicate(dir, path, md5(content))
        THEN [filename |-> None, directory |-> dir]
        ELSE [filename |-> filename, directory |-> put(dir, filename, File(content))]

----------------------------------------------------------------------------
(* The writer alone: dump_file called on its own on the working directory *)

\* the k-th name of the sequence name.bin, name.2.bin, name.3.bin, ...
NthName(path, k) ==
    LET stem == SubSeq(path, 1, Len(path) - 4)
    IN  IF k = 1 THEN path
        ELSE stem \o <<".">> \o str(k) \o <<".", "b", "i", "n">>

BaseNames == {partitionA_bin, partitionB_bin}

InitNames == {partitionA_bin, NthName(partitionA_bin, 2)}
InitEntries == {File(<<1>>), Dir}
InitDirs == UNION {[S -> InitEntries] : S \in SUBSET InitNames}

\* values of the variables that an operation does not use
Idle ==
    /\ is_main = FALSE /\ boot9_found = TRUE /\ crypto = NoneStr
    /\ paths = 0 /\ index = 0 /\ arg_id0 = NoneStr
    /\ skip_duplicate_check = FALSE
    /\ image = NoImage /\ disa_file = NoContainer /\ handles = {}
    /\ id0 = NoneStr /\ partition_a = NoneBytes /\ partition_b = NoneBytes
    /\ partition_a_filename = None /\ partition_b_filename = None
    /\ partition_a_dumps = {} /\ partition_b_dumps = {}
    /\ outcome = <<>> /\ before = Began(<<>>, {}, {}) /\ trail = {}

InitDump ==
    /\ Idle
    /\ pc = "dump"
    /\ directory \in InitDirs
    /\ intended = directory
    /\ calls = <<>>

\* what a dump_file call did: its arguments, the directory it found, the name
\* find_unused_filename chose, the name it returned and the directory it left
Call(image_index, path, content, skip, dir, after, filename) ==
    [image |-> image_index, path |-> path, content |-> content, skip |-> skip,
     before |-> dir, chosen |-> find_unused_filename(path, dir),
     filename |-> filename, after |-> after]

DumpCall ==
    /\ pc = "dump"
    /\ Len(calls) < MaxCalls
    /\ \E path \in BaseNames, content \in Payloads, skip \in BOOLEAN :
        LET r == dump_file(path, content, skip, directory)
        IN  /\ directory' = r.directory
            /\ intended' = IF r.filename = None THEN intended
                           ELSE put(intended, r.filename, File(content))
            /\ calls' = Append(calls, Call(0, path, content, skip, directory,
                                           r.directory, r.filename))
    /\ UNCHANGED <<pc, is_main, boot9_found, crypto, paths, index, arg_id0,
                   skip_duplicate_check, image, disa_file, handles, id0,
                   partition_a, partition_b, partition_a_filename,
                   partition_b_filename, partition_a_dumps, partition_b_dumps,
                   outcome, before, trail>>

NextDump == DumpCall

SpecDump == InitDump /\ [][NextDump]_vars

----------------------------------------------------------------------------
(* The batch: extract_nand_backups over extract_nand_backup *)

Ids == {"id1", "id2"}                       \* directory names under /data
SuppliedIds == {NoneStr, "id2"}             \* values of the --id0 argument
DataLists == {<<>>, <<"id2", "id1">>}

\* an image: whether /private/movable.sed can be read, the id0 the engine
\* holds after setup_sd_key (NoneStr: none), the listing of /data, and the
\* directories of /data that hold sysdata/00010034/00000000
Images ==
    [movable : BOOLEAN, key_id0 : {"id1", NoneStr}, data_list : DataLists,
     containers : SUBSET Ids]

\* a container file: whether its header magic is right, and its partitions
Containers ==
    [magic_ok : BOOLEAN,
     partitions : {<<a>> : a \in Payloads}
                    \cup {<<a, b>> : a \in Payloads, b \in SecondPayloads}]

SpecInitDirs == {<<>>, [f \in {partitionA_bin} |-> File(<<1>>)]}

Init ==
    /\ pc = "start"
    /\ is_main \in BOOLEAN
    /\ boot9_found \in BOOLEAN
    /\ crypto = NoneStr
    /\ paths \in 1..MaxBatch
    /\ index = 0
    /\ arg_id0 \in SuppliedIds
    /\ skip_duplicate_check \in BOOLEAN
    /\ image = NoImage /\ disa_file = NoContainer /\ handles = {}
    /\ id0 = NoneStr /\ partition_a = NoneBytes /\ partition_b = NoneBytes
    /\ partition_a_filename = None /\ partition_b_filename = None
    /\ directory \in SpecInitDirs
    /\ intended = directory
    /\ partition_a_dumps = {} /\ partition_b_dumps = {}
    /\ outcome = <<>> /\ before = Began(directory, {}, {})
    /\ trail = {} /\ calls = <<>>

args == <<is_main, boot9_found, paths, arg_id0, skip_duplicate_check>>
locals == <<id0, partition_a, partition_b, partition_a_filename,
            partition_b_filename>>
disk == <<directory, intended, calls>>
dumps == <<partition_a_dumps, partition_b_dumps>>

\* get_crypto_engine: the engine, None, or sys.exit(1) when run as a script
get_crypto_engine(found, main) ==
    IF found THEN "engine" ELSE IF main THEN "exit" ELSE NoneStr

\* a container file handle opened outside a with block is left open
exit_with_leaky(handle, open) ==
    IF handle = "disa_image_handle" THEN open ELSE open \ {handle}

\* leaving a with block closes what it opened
exit_with(handle, open) == open \ {handle}

\* leaving the with blocks of extract_disa_partitions and extract_nand_backup
exit_all(open) ==
    exit_with("nand", exit_with("ctrnand_handle",
        exit_with("disa_image_handle", exit_with("disa", open))))

did(step) == <<"did", step>>
raised(cause) == <<"raised", cause>>

\* an exception leaves extract_nand_backup through its with blocks and then
\* extract_nand_backups, which has no handler: the batch ends there
Raise(attempted, cause) ==
    /\ handles' = exit_all(handles)
    /\ trail' = trail \cup attempted \cup {raised(cause)}
    /\ outcome' = Append(outcome, "raised")
    /\ pc' = "aborted"

\* crypto = get_crypto_engine(boot9=boot9)
GetCrypto ==
    /\ pc = "start"
    /\ LET engine == get_crypto_engine(boot9_found, is_main)
       IN  IF engine = "exit"
           THEN pc' = "exited" /\ crypto' = crypto
           ELSE pc' = "loop" /\ crypto' = engine
    /\ UNCHANGED <<args, index, image, disa_file, handles, locals, disk, dumps,
                   outcome, before, trail>>

\* for path in paths: extract_nand_backup(...) with an engine
BeginImage ==
    /\ pc = "loop" /\ index < paths
    /\ crypto # NoneStr
    /\ index' = index + 1
    /\ image' \in Images
    /\ disa_file' = NoContainer
    /\ id0' = arg_id0
    /\ partition_a' = NoneBytes /\ partition_b' = NoneBytes
    /\ partition_a_filename' = None /\ partition_b_filename' = None
    /\ before' = Began(directory, partition_a_dumps, partition_b_dumps)
    /\ trail' = {}
    /\ pc' = "nand"
    /\ UNCHANGED <<args, crypto, handles, disk, dumps, outcome>>

\* extract_nand_backup without an engine: get_crypto_engine again, return None,
\* and the batch prints "Extraction failed"
CryptoUnavailable ==
    /\ pc = "loop" /\ index < paths
    /\ crypto = NoneStr
    /\ get_crypto_engine(boot9_found, is_main) = NoneStr
    /\ index' = index + 1
    /\ before' = Began(directory, partition_a_dumps, partition_b_dumps)
    /\ trail' = {}
    /\ outcome' = Append(outcome, "failed")
    /\ UNCHANGED <<pc, args, crypto, image, disa_file, handles, locals, disk,
                   dumps>>

\* with NAND(...) as nand
OpenNAND ==
    /\ pc = "nand"
    /\ handles' = handles \cup {"nand"}
    /\ trail' = trail \cup {did("NAND")}
    /\ pc' = "ctrfat"
    /\ UNCHANGED <<args, crypto, index, image, disa_file, locals, disk, dumps,
                   outcome, before>>

\* with nand.open_ctr_fat() as ctrnand_handle
OpenCtrFat ==
    /\ pc = "ctrfat"
    /\ handles' = handles \cup {"ctrnand_handle"}
    /\ trail' = trail \cup {did("open_ctr_fat")}
    /\ pc' = "movable"
    /\ UNCHANGED <<args, crypto, index, image, disa_file, locals, disk, dumps,
                   outcome, before>>

\* movable_sed = ctrnand_handle.readbytes(...); crypto.setup_sd_key(...)
ReadMovable ==
    /\ pc = "movable"
    /\ IF image.movable
       THEN /\ trail' = trail \cup {did("readbytes"), did("setup_sd_key")}
            /\ pc' = "id0"
            /\ UNCHANGED <<handles, outcome>>
       ELSE Raise({did("readbytes")}, "movable.sed")
    /\ UNCHANGED <<args, crypto, index, image, disa_file, locals, disk, dumps,
                   before>>

\* crypto.id0.hex(): the hex of the id0 of the engine; None has no hex()
id0_hex(key_id0) == IF key_id0 = NoneStr THEN "raise" ELSE key_id0

\* if id0 is None: id0 = crypto.id0.hex(); if id0 is None: id0 = listdir("/data")[0]
DetectId0 ==
    /\ pc = "id0"
    /\ IF id0 # NoneStr
       THEN /\ pc' = "openbin"
            /\ UNCHANGED <<id0, handles, outcome, trail>>
       ELSE LET hex == id0_hex(image.key_id0)
            IN  IF hex = "raise"
                THEN Raise({did("crypto.id0")}, "id0") /\ UNCHANGED id0
                ELSE /\ id0' = IF hex = NoneStr THEN Head(image.data_list) ELSE hex
                     /\ trail' = trail \cup {did("crypto.id0")}
                                   \cup (IF hex = NoneStr THEN {did("listdir")} ELSE {})
                     /\ pc' = "openbin"
                     /\ UNCHANGED <<handles, outcome>>
    /\ UNCHANGED <<args, crypto, index, image, disa_file, partition_a,
                   partition_b, partition_a_filename, partition_b_filename,
                   disk, dumps, before>>

\* "/data/{}/sysdata/00010034/00000000".format(id0)
disa_path(id) == <<"data", id, "sysdata", "00010034", "00000000">>

\* the files of an image that openbin can open
files_of(img) == {disa_path(id) : id \in img.containers}

\* with ctrnand_handle.openbin(path=disa_path, mode="rb") as disa_image_handle
OpenBin ==
    /\ pc = "openbin"
    /\ IF disa_path(id0) \in files_of(image)
       THEN /\ handles' = handles \cup {"disa_image_handle"}
            /\ disa_file' \in Containers
            /\ trail' = trail \cup {did("openbin")}
            /\ pc' = "disa"
            /\ UNCHANGED outcome
       ELSE Raise({}, "path") /\ UNCHANGED disa_file
    /\ UNCHANGED <<args, crypto, index, image, locals, disk, dumps, before>>

\* the header check of the container parser: the magic is always enforced
DISA(file) == IF file.magic_ok THEN "disa" ELSE "raise"

\* OpenDISA going on to read whatever the parser reports
OpenDISA_unchecked ==
    /\ pc = "disa"
    /\ handles' = handles \cup {"disa"}
    /\ trail' = trail \cup {did("DISA")}
    /\ pc' = "read"
    /\ UNCHANGED <<args, crypto, index, image, disa_file, locals, disk, dumps,
                   outcome, before>>

\* with DISA(disa_handle) as disa
OpenDISA ==
    /\ pc = "disa"
    /\ IF DISA(disa_file) = "raise"
       THEN Raise({}, "magic")
       ELSE /\ handles' = handles \cup {"disa"}
            /\ trail' = trail \cup {did("DISA")}
            /\ pc' = "read"
            /\ UNCHANGED outcome
    /\ UNCHANGED <<args, crypto, index, image, disa_file, locals, disk, dumps,
                   before>>

\* extract_disa_partitions taking the last partition as partition B
extract_disa_partitions_last(partitions) ==
    <<partitions[1], partitions[Len(partitions)]>>

\* extract_disa_partitions: the payloads of the partitions of an open container
extract_disa_partitions(partitions) ==
    <<partitions[1], IF Len(partitions) > 1 THEN partitions[2] ELSE NoneBytes>>

\* partition_a, partition_b = extract_disa_partitions(...), leaving the with blocks
ReadPartitions ==
    /\ pc = "read"
    /\ LET extracted == extract_disa_partitions(disa_file.partitions)
       IN  /\ partition_a' = extracted[1]
           /\ partition_b' = extracted[2]
    /\ handles' = exit_all(handles)
    /\ image' = NoImage
    /\ trail' = trail \cup {did("read")}
    /\ pc' = "dump_a"
    /\ UNCHANGED <<args, crypto, index, disa_file, id0,
                   partition_a_filename, partition_b_filename, disk, dumps,
                   outcome, before>>

\* an I/O error of the image reader at any step that reads the image
IOFailure ==
    /\ pc \in {"nand", "ctrfat", "movable", "openbin", "disa", "read"}
    /\ Raise({}, "io")
    /\ UNCHANGED <<args, crypto, index, image, disa_file, locals, disk, dumps,
                   before>>

\* the bytes a write that fails part-way can leave in the file it opened
Truncated(content) == {SubSeq(content, 1, n) : n \in 0..(Len(content) - 1)}

\* partition_a_filename = dump_file(path="partitionA.bin", ...)
DumpA ==
    /\ pc = "dump_a"
    /\ LET r == dump_file(partitionA_bin, partition_a, skip_duplicate_check, directory)
       IN  /\ partition_a_filename' = r.filename
           /\ directory' = r.directory
           /\ intended' = IF r.filename = None THEN intended
                          ELSE put(intended, r.filename, File(partition_a))
           /\ calls' = Append(calls, Call(index, partitionA_bin, partition_a,
                                          skip_duplicate_check, directory,
                                          r.directory, r.filename))
    /\ trail' = trail \cup {did("dump_a")}
    /\ pc' = "dump_b"
    /\ UNCHANGED <<args, crypto, index, image, disa_file, handles, id0,
                   partition_a, partition_b, partition_b_filename, dumps,
                   outcome, before>>

\* if partition_b is None: ... else: partition_b_filename = dump_file(path="partitionB.bin", ...)
DumpB ==
    /\ pc = "dump_b"
    /\ IF partition_b = NoneBytes
       THEN /\ partition_b_filename' = None
            /\ UNCHANGED disk
       ELSE LET r == dump_file(partitionB_bin, partition_b, skip_duplicate_check,
                               directory)
            IN  /\ partition_b_filename' = r.filename
                /\ directory' = r.directory
                /\ intended' = IF r.filename = None THEN intended
                               ELSE put(intended, r.filename, File(partition_b))
                /\ calls' = Append(calls, Call(index, partitionB_bin, partition_b,
                                               skip_duplicate_check, directory,
                                               r.directory, r.filename))
    /\ trail' = trail \cup {did("dump_b")}
    /\ pc' = "return"
    /\ UNCHANGED <<args, crypto, index, image, disa_file, handles, id0,
                   partition_a, partition_b, partition_a_filename, dumps,
                   outcome, before>>

\* with open(filename, "wb") as partition_out: partition_out.write(content)
\* when the write raises after the file was opened
WriteFails ==
    /\ pc \in {"dump_a", "dump_b"}
    /\ LET path == IF pc = "dump_a" THEN partitionA_bin ELSE partitionB_bin
           content == IF pc = "dump_a" THEN partition_a ELSE partition_b
       IN  /\ content # NoneBytes
           /\ ~(~skip_duplicate_check /\ is_duplicate(directory, path, md5(content)))
           /\ LET filename == find_unused_filename(path, directory)
              IN  /\ \E written \in Truncated(content) :
                        directory' = put(directory, filename, File(written))
                  /\ intended' = put(intended, filename, File(content))
    /\ Raise({}, "write")
    /\ UNCHANGED <<args, crypto, index, image, disa_file, locals, calls, dumps,
                   before>>

\* add_new without the test for a duplicate
add_new_duplicate(partition_dumps, new_partition, partition_is_duplicate) ==
    IF new_partition # NoneBytes
    THEN partition_dumps \cup {new_partition}
    ELSE partition_dumps

\* if new_partition is not None and not partition_is_duplicate: dumps.add(new_partition)
add_new(partition_dumps, new_partition, partition_is_duplicate) ==
    IF new_partition # NoneBytes /\ ~partition_is_duplicate
    THEN partition_dumps \cup {new_partition}
    ELSE partition_dumps

\* return partition_a, partition_b, ...; the batch adds the new payloads to its sets
Collect ==
    /\ pc = "return"
    /\ partition_a_dumps' = add_new(partition_a_dumps, partition_a,
                                    partition_a_filename = None)
    /\ partition_b_dumps' = add_new(partition_b_dumps, partition_b,
                                    partition_b_filename = None)
    /\ outcome' = Append(outcome, "ok")
    /\ trail' = trail \cup {did("return")}
    /\ pc' = "loop"
    /\ UNCHANGED <<args, crypto, index, image, disa_file, handles, locals, disk,
                   before>>

Answers == {"", "Y", "N"}

\* if partition_a_dumps or partition_b_dumps: input(...), upload_dumps(...); print("Done!")
Finish ==
    /\ pc = "loop" /\ index = paths
    /\ IF partition_a_dumps # {} \/ partition_b_dumps # {}
       THEN \E answer \in Answers :
               trail' = trail \cup {did("input")}
                          \cup (IF answer \in {"", "Y", "YES"}
                                THEN {did("upload_dumps")} ELSE {})
       ELSE trail' = trail
    /\ pc' = "done"
    /\ UNCHANGED <<args, crypto, index, image, disa_file, handles, locals, disk,
                   dumps, outcome, before>>

Next ==
    \/ GetCrypto
    \/ BeginImage
    \/ CryptoUnavailable
    \/ OpenNAND
    \/ OpenCtrFat
    \/ ReadMovable
    \/ DetectId0
    \/ OpenBin
    \/ OpenDISA
    \/ ReadPartitions
    \/ IOFailure
    \/ DumpA
    \/ DumpB
    \/ WriteFails
    \/ Collect
    \/ Finish

Spec == Init /\ [][Next]_vars

----------------------------------------------------------------------------
(* Claims about the writer (checked under SpecDump) *)

CallsOf(path) == {k \in 1..Len(calls) : calls[k].path = path}

\* the entries of dir whose name starts with the name-without-extension of path
Sharing(path, dir) ==
    {f \in DOMAIN dir : startswith(f, SubSeq(path, 1, Len(path) - 4))}

\* path is dumped with the duplicate check enabled, into a directory that held
\* no entry sharing its name-without-extension
Clean(path) ==
    /\ CallsOf(path) # {}
    /\ \A k \in CallsOf(path) : ~calls[k].skip
    /\ Sharing(path, calls[1].before) = {}

\* C5: the name find_unused_filename chooses is the first of name.bin,
\* name.2.bin, name.3.bin, ... that the directory does not hold, and the write
\* of dump_file leaves every entry the directory held as it was.
C5_FirstUnusedName ==
    \A k \in 1..Len(calls) :
        LET c == calls[k]
        IN  /\ c.chosen \notin DOMAIN c.before
            /\ \E n \in 1..(Cardinality(DOMAIN c.before) + 1) :
                  /\ c.chosen = NthName(c.path, n)
                  /\ \A m \in 1..(n - 1) : NthName(c.path, m) \in DOMAIN c.before
            /\ c.filename \in {None, c.chosen}
            /\ \A f \in DOMAIN c.before :
                  f \in DOMAIN c.after /\ c.after[f] = c.before[f]

\* C5 witness: a call found name.bin and name.2.bin taken and wrote name.3.bin
C5_Witness ==
    \E k \in 1..Len(calls) :
        /\ calls[k].filename = NthName(partitionA_bin, 3)
        /\ {partitionA_bin, NthName(partitionA_bin, 2)} \subseteq DOMAIN calls[k].before
        /\ calls[k].after[calls[k].filename] = File(calls[k].content)

----------------------------------------------------------------------------
(* Claims about the batch (checked under Spec) *)

CallsOfImage(k) == {c \in 1..Len(calls) : calls[c].image = k}

\* the payloads dump_file has written (not reported as duplicate) for path
Written(path) ==
    {calls[c].content : c \in {d \in CallsOf(path) : calls[d].filename # None}}

\* C1 as stated: no failure of an image ends the batch; every image is
\* recorded as processed or failed, and the batch reaches "Done!".
C1_BatchContinues ==
    /\ pc # "aborted"
    /\ \A k \in 1..Len(outcome) : outcome[k] \in {"ok", "failed"}

\* C3 as stated: without a supplied id0, when movable.sed cannot be read or
\* the engine holds no id0, and the first entry of /data holds the container,
\* the id0 is that entry and the image does not fail for the missing key
\* material.
C3_FallbackToListing ==
    ( /\ arg_id0 = NoneStr
      /\ image.data_list # <<>>
      /\ disa_path(Head(image.data_list)) \in files_of(image)
      /\ ~image.movable \/ image.key_id0 = NoneStr
      /\ pc \in {"openbin", "disa", "read", "aborted"}
      /\ raised("io") \notin trail )
    => /\ id0 = Head(image.data_list)
       /\ did("listdir") \in trail
       /\ raised("movable.sed") \notin trail
       /\ raised("id0") \notin trail

\* C4: once the parser has met a container with a wrong magic, the image has
\* failed whatever the flags: no payload is held, no dump_file call was made
\* for the image, the directory and the upload sets are as the image found them.
C4_BadMagicFails ==
    (did("openbin") \in trail /\ ~disa_file.magic_ok /\ pc # "disa")
    => /\ pc = "aborted"
       /\ outcome[index] = "raised"
       /\ did("DISA") \notin trail
       /\ partition_a = NoneBytes /\ partition_b = NoneBytes
       /\ CallsOfImage(index) = {}
       /\ directory = before.directory
       /\ partition_a_dumps = before.a /\ partition_b_dumps = before.b

\* C4 witness: the second image of a batch, run with -n and a supplied id0,
\* has a two-partition container with a wrong magic and has failed on it
C4_Witness ==
    /\ raised("magic") \in trail
    /\ Len(disa_file.partitions) = 2
    /\ skip_duplicate_check /\ arg_id0 # NoneStr
    /\ index = 2 /\ partition_a_dumps # {}

\* C6 as stated: with a supplied id0 under which the image holds the
\* container, the container is opened under it, and no key material is read,
\* no id0 derived, /data not listed, so that none of these can fail the image.
C6_SuppliedIdUsedDirectly ==
    (arg_id0 # NoneStr /\ disa_path(arg_id0) \in files_of(image))
    => /\ did("openbin") \in trail => id0 = arg_id0
       /\ did("readbytes") \notin trail
       /\ did("setup_sd_key") \notin trail
       /\ did("crypto.id0") \notin trail
       /\ did("listdir") \notin trail
       /\ raised("movable.sed") \notin trail

\* C7: once a container with one partition has been read, partition A is its
\* payload and partition B is None; only a failing write can still fail the
\* image; dump_file is called for partition A alone, no partitionB file
\* appears, and the partition B upload set stays as the image found it.
C7_SinglePartition ==
    (did("read") \in trail /\ Len(disa_file.partitions) = 1)
    => /\ partition_a = disa_file.partitions[1]
       /\ partition_b = NoneBytes
       /\ partition_b_filename = None
       /\ pc = "aborted" => raised("write") \in trail
       /\ \A c \in CallsOfImage(index) : calls[c].path = partitionA_bin
       /\ did("dump_a") \in trail =>
             \E c \in CallsOfImage(index) :
                /\ calls[c].content = partition_a
                /\ calls[c].filename = partition_a_filename
                /\ partition_a_filename # None =>
                      directory[partition_a_filename] = File(partition_a)
       /\ did("return") \in trail => outcome[index] = "ok"
       /\ Sharing(partitionB_bin, directory) = Sharing(partitionB_bin, before.directory)
       /\ partition_b_dumps = before.b

\* C7 witness: a one-partition image has returned after writing partition A,
\* in a batch that had already collected a partition B
C7_Witness ==
    /\ did("return") \in trail
    /\ Len(disa_file.partitions) = 1
    /\ partition_a_filename # None
    /\ partition_b_dumps # {}

\* C8: the upload sets hold only payloads that dump_file wrote during the
\* batch, never None; between images and at the end they hold exactly those; an
\* image that failed added nothing; the prompt needs a non-empty set.
C8_UploadSets ==
    /\ partition_a_dumps \subseteq Written(partitionA_bin)
    /\ partition_b_dumps \subseteq Written(partitionB_bin)
    /\ NoneBytes \notin partition_a_dumps \cup partition_b_dumps
    /\ pc \in {"loop", "done"} =>
          /\ partition_a_dumps = Written(partitionA_bin)
          /\ partition_b_dumps = Written(partitionB_bin)
    /\ pc = "aborted" =>
          partition_a_dumps = before.a /\ partition_b_dumps = before.b
    /\ did("input") \in trail => partition_a_dumps # {} \/ partition_b_dumps # {}
    /\ did("upload_dumps") \in trail => did("input") \in trail

\* C8 witness: a batch of two images ends with an upload of both sets after
\* dump_file reported a duplicate
C8_Witness ==
    /\ pc = "done" /\ index = 2
    /\ did("upload_dumps") \in trail
    /\ partition_a_dumps # {} /\ partition_b_dumps # {}
    /\ \E c \in 1..Len(calls) : calls[c].filename = None /\ ~calls[c].skip

\* C9: outside the with blocks of an image no reader is open: not when the
\* image has returned or raised, nor when the next image starts.
C9_ReadersClosed ==
    /\ pc \notin {"ctrfat", "movable", "id0", "openbin", "disa", "read"} => handles = {}
    /\ pc = "ctrfat" => handles = {"nand"}
    /\ pc \in {"movable", "id0", "openbin"} => handles = {"nand", "ctrnand_handle"}
    /\ pc = "disa" => handles = {"nand", "ctrnand_handle", "disa_image_handle"}

\* C9 witness: the second image failed while the parser was reading, with the
\* four readers open
C9_Witness ==
    /\ pc = "aborted" /\ index = 2
    /\ did("DISA") \in trail /\ raised("io") \in trail

\* C10 as stated: every file of the directory holds the whole of the bytes
\* handed to its write, and the files an image found are unchanged.
C10_NoPartialOutput ==
    /\ directory = intended
    /\ \A f \in DOMAIN before.directory :
          f \in DOMAIN directory /\ directory[f] = before.directory[f]

====
